---- MODULE Spec2Model ----
\* A model of the Prometheus remote write metrics exporter:
\*   exporter/opentelemetry-exporter-prometheus-remote-write/src/opentelemetry/
\*   exporter/prometheus_remote_write/__init__.py
\*
\* Python values are modelled as follows.
\*   str used as a label / series name : a sequence of one-character strings
\*   str used as a label value, header, token, file name : a TLA+ string
\*   int / float                        : [t |-> "int" | "float", v |-> n]
\*   None                               : [t |-> "None"]
\*   dict                               : a function (unordered use) or a sequence of
\*                                        <<key, value>> pairs (iteration order matters)
\*   a call's outcome                   : [ok |-> TRUE, val |-> v] (returned v)
\*                                        [ok |-> FALSE, exc |-> e] (raised e)
EXTENDS Integers, Sequences, FiniteSets, TLC

VARIABLES
    config,   \* the exporter's Config object: attribute name -> value
    files,    \* the file system: file name -> content, or Missing
    thread,   \* per calling thread: the position and locals of its export call
    call      \* the last direct call of a converter: its name, argument, outcome

vars == <<config, files, thread, call>>

----------------------------------------------------------------------------
\* Bounds of the model.

\* longest sequence of updates applied to an aggregator before its checkpoint
MaxUpdates == 3
\* longest sequence of export records handed to one call
MaxRecords == 2

----------------------------------------------------------------------------
\* Python values.

None == [t |-> "None"]
PyInt(n) == [t |-> "int", v |-> n]
PyFloat(n) == [t |-> "float", v |-> n]
PyStr(s) == [t |-> "str", v |-> s]
PyDict(f) == [t |-> "dict", v |-> f]

\* the truth value of an argument: None, "" and {} are false
Truthy(x) ==
    CASE x.t = "None" -> FALSE
      [] x.t = "str" -> x.v # ""
      [] x.t = "dict" -> DOMAIN x.v # {}

Return(v) == [ok |-> TRUE, val |-> v]
Raise(e) == [ok |-> FALSE, exc |-> e]

\* float(x) of an int or float x
float(x) == PyFloat(x.v)

\* str(n) of an int n: its decimal digits, with a leading minus sign
Digit(d) == <<"0", "1", "2", "3", "4", "5", "6", "7", "8", "9">>[d + 1]

RECURSIVE StrNat(_)
StrNat(n) == IF n < 10 THEN <<Digit(n)>> ELSE StrNat(n \div 10) \o <<Digit(n % 10)>>

str(n) == IF n < 0 THEN <<"-">> \o StrNat(-n) ELSE StrNat(n)

\* float("inf"), as a histogram bound
inf == "inf"

RECURSIVE SumSeq(_)
SumSeq(s) == IF s = <<>> THEN 0 ELSE Head(s) + SumSeq(Tail(s))

RECURSIVE MinSeq(_)
MinSeq(s) ==
    IF Len(s) = 1 THEN s[1]
    ELSE LET m == MinSeq(Tail(s)) IN IF s[1] < m THEN s[1] ELSE m

RECURSIVE MaxSeq(_)
MaxSeq(s) ==
    IF Len(s) = 1 THEN s[1]
    ELSE LET m == MaxSeq(Tail(s)) IN IF s[1] > m THEN s[1] ELSE m

\* all sequences over S of length lo..hi
SeqsOf(S, lo, hi) == UNION {[1..n -> S] : n \in lo..hi}

----------------------------------------------------------------------------
\* The SDK's aggregators, as the exporter's tests exercise them: a sequence of
\* update(value) calls followed by take_checkpoint().

\* SumAggregator: the running total
SumCheckpoint(updates) == PyInt(SumSeq(updates))

\* MinMaxSumCountAggregator: namedtuple (min, max, sum, count)
MinMaxSumCountCheckpoint(updates) ==
    [t |-> "minmaxsumcount",
     min |-> PyInt(MinSeq(updates)), max |-> PyInt(MaxSeq(updates)),
     sum |-> PyInt(SumSeq(updates)), count |-> PyInt(Len(updates))]

\* LastValueAggregator: the most recent update
LastValueCheckpoint(updates) == PyInt(updates[Len(updates)])

\* ValueObserverAggregator: namedtuple (min, max, sum, count, last)
ValueObserverCheckpoint(updates) ==
    [t |-> "minmaxsumcountlast",
     min |-> PyInt(MinSeq(updates)), max |-> PyInt(MaxSeq(updates)),
     sum |-> PyInt(SumSeq(updates)), count |-> PyInt(Len(updates)),
     last |-> PyInt(updates[Len(updates)])]

\* HistogramAggregator: an ordered dict bound -> count over the configured
\* boundaries followed by inf; an update counts in the first bucket whose bound
\* exceeds the value, or in the inf bucket (the last one).
BucketOf(boundaries, value) ==
    IF \E i \in 1..Len(boundaries) : value < boundaries[i]
    THEN CHOOSE i \in 1..Len(boundaries) :
            /\ value < boundaries[i]
            /\ \A j \in 1..(i - 1) : ~(value < boundaries[j])
    ELSE Len(boundaries) + 1

HistogramCheckpoint(boundaries, updates) ==
    LET key(i) == IF i <= Len(boundaries) THEN PyInt(boundaries[i]) ELSE PyFloat(inf)
        hits(i) == Cardinality({u \in 1..Len(updates) : BucketOf(boundaries, updates[u]) = i})
    IN [t |-> "OrderedDict",
        items |-> [i \in 1..(Len(boundaries) + 1) |-> <<key(i), PyInt(hits(i))>>]]

\* The aggregator kinds of the SDK, and a kind the exporter has no converter for.
SupportedKinds ==
    {"SumAggregator", "MinMaxSumCountAggregator", "HistogramAggregator",
     "LastValueAggregator", "ValueObserverAggregator"}
UnsupportedKind == "NoneType"
Kinds == SupportedKinds \cup {UnsupportedKind}

Checkpoint(kind, boundaries, updates) ==
    CASE kind = "SumAggregator" -> SumCheckpoint(updates)
      [] kind = "MinMaxSumCountAggregator" -> MinMaxSumCountCheckpoint(updates)
      [] kind = "HistogramAggregator" -> HistogramCheckpoint(boundaries, updates)
      [] kind = "LastValueAggregator" -> LastValueCheckpoint(updates)
      [] kind = "ValueObserverAggregator" -> ValueObserverCheckpoint(updates)
      [] OTHER -> None

\* ExportRecord(instrument, labels, aggregator, resource)
ExportRecord(name, labels, kind, boundaries, updates, timestamp, attributes) ==
    [instrument |-> [name |-> name],
     labels |-> labels,
     aggregator |-> [type |-> kind,
                     boundaries |-> boundaries,
                     updates |-> updates,
                     checkpoint |-> Checkpoint(kind, boundaries, updates),
                     last_update_timestamp |-> timestamp],
     resource |-> [attributes |-> attributes]]

----------------------------------------------------------------------------
\* PrometheusRemoteWriteMetricsExporter: building labels, samples and series.

Legal ==
    {"0", "1", "2", "3", "4", "5", "6", "7", "8", "9", "_",
     "a", "b", "c", "d", "e", "f", "g", "h", "i", "j", "k", "l", "m",
     "n", "o", "p", "q", "r", "s", "t", "u", "v", "w", "x", "y", "z",
     "A", "B", "C", "D", "E", "F", "G", "H", "I", "J", "K", "L", "M",
     "N", "O", "P", "Q", "R", "S", "T", "U", "V", "W", "X", "Y", "Z"}

\* re.sub("[^0-9a-zA-Z_]+", "_", name): scanning from the left, every maximal
\* run of characters outside the class is replaced by one underscore.
RECURSIVE SkipIllegal(_)
SkipIllegal(s) ==
    IF s # <<>> /\ Head(s) \notin Legal THEN SkipIllegal(Tail(s)) ELSE s

\* a variant without the "+": one underscore for every character outside the class
RECURSIVE re_sub_each(_)
re_sub_each(name) ==
    IF name = <<>> THEN <<>>
    ELSE <<IF Head(name) \in Legal THEN Head(name) ELSE "_">> \o re_sub_each(Tail(name))

RECURSIVE re_sub(_)
re_sub(name) ==
    IF name = <<>> THEN <<>>
    ELSE IF Head(name) \in Legal THEN <<Head(name)>> \o re_sub(Tail(name))
    ELSE <<"_">> \o re_sub(SkipIllegal(name))

create_label(name, value) == [name |-> re_sub(name), value |-> value]

NanosPerMilli == 1000000

\* A Python int of up to 64 bits: its sign and its magnitude, the magnitude as
\* four digits in base 1000000, most significant first (zero is not negative).
Wide(neg, digits) ==
    [t |-> "int", neg |-> neg /\ digits # <<0, 0, 0, 0>>, digits |-> digits]

WideOf(n) ==
    LET abs == IF n < 0 THEN -n ELSE n
    IN Wide(n < 0, <<0, 0, abs \div NanosPerMilli, abs % NanosPerMilli>>)

\* x >= y, for magnitudes
RECURSIVE AtLeast(_, _)
AtLeast(x, y) ==
    \/ x = <<>>
    \/ Head(x) > Head(y)
    \/ Head(x) = Head(y) /\ AtLeast(Tail(x), Tail(y))

\* n times a magnitude, for a small n (n * 1000000 stays below 2^31)
Times(n, d) ==
    LET c4 == n * d[4]
        c3 == n * d[3] + c4 \div NanosPerMilli
        c2 == n * d[2] + c3 \div NanosPerMilli
        c1 == n * d[1] + c2 \div NanosPerMilli
    IN <<c1, c2 % NanosPerMilli, c3 % NanosPerMilli, c4 % NanosPerMilli>>

\* 2^e as a magnitude, ten doublings at a time
RECURSIVE Pow2(_)
Pow2(e) == IF e < 10 THEN <<0, 0, 0, 2 ^ e>> ELSE Times(2 ^ 10, Pow2(e - 10))

Successor(d) ==
    LET c4 == d[4] + 1
        c3 == d[3] + c4 \div NanosPerMilli
        c2 == d[2] + c3 \div NanosPerMilli
        c1 == d[1] + c2 \div NanosPerMilli
    IN <<c1, c2 % NanosPerMilli, c3 % NanosPerMilli, c4 % NanosPerMilli>>

\* -2^63 <= n < 2^63
InInt64(n) ==
    IF n.neg THEN AtLeast(Pow2(63), n.digits) ELSE ~AtLeast(n.digits, Pow2(63))

\* the binary exponent of a magnitude m >= 1: 2^e <= m < 2^(e+1)
Exponent(m) == CHOOSE e \in 0..63 : AtLeast(m, Pow2(e)) /\ ~AtLeast(m, Pow2(e + 1))

\* a double has 53 significant bits
MantissaBits == 53

\* timestamp / 1000000 is Python's true division: the double nearest to the
\* exact quotient q + r/1000000 (0 <= r < 1000000). int() then truncates that
\* double toward zero, so the result is q unless the quotient rounds up to
\* q + 1, which it does when its distance to q + 1 is less than half the
\* spacing 2^(e - 52) of the doubles between 2^e and 2^(e+1), e the exponent
\* of q. (A tie needs 2^(53 - e) to divide 1000000, so e >= 47, beyond the
\* quotient of a 64-bit int; with 53 - e > 30 the half spacing is below
\* 1/1000000 and nothing rounds up.)
RoundsUp(q, r) ==
    /\ q # <<0, 0, 0, 0>>
    /\ LET k == MantissaBits - Exponent(q)
       IN /\ k < 31
          /\ NanosPerMilli - r <= (NanosPerMilli - 1) \div (2 ^ k)

int_truediv(timestamp) ==
    LET q == <<0, timestamp.digits[1], timestamp.digits[2], timestamp.digits[3]>>
        r == timestamp.digits[4]
    IN Wide(timestamp.neg, IF RoundsUp(q, r) THEN Successor(q) ELSE q)

create_sample(timestamp, value) ==
    [timestamp |-> int_truediv(timestamp), value |-> value]

\* the keys of a dict given as a sequence of <<key, value>> pairs
Keys(items) == {items[i][1] : i \in 1..Len(items)}

\* a variant that appends every record label, present among the resource attributes or not
create_timeseries_unfiltered(export_record, name, value) ==
    LET resource_attributes == export_record.resource.attributes
        name_label == <<create_label(<<"_", "_", "n", "a", "m", "e", "_", "_">>, name)>>
        resource_labels ==
            [i \in 1..Len(resource_attributes) |->
                create_label(resource_attributes[i][1], resource_attributes[i][2])]
        record_labels == export_record.labels
    IN [labels |-> name_label \o resource_labels
                   \o [i \in 1..Len(record_labels) |->
                            create_label(record_labels[i][1], record_labels[i][2])],
        samples |-> <<create_sample(export_record.aggregator.last_update_timestamp, value)>>]

create_timeseries(export_record, name, value) ==
    LET resource_attributes == export_record.resource.attributes
        name_label == <<create_label(<<"_", "_", "n", "a", "m", "e", "_", "_">>, name)>>
        resource_labels ==
            [i \in 1..Len(resource_attributes) |->
                create_label(resource_attributes[i][1], resource_attributes[i][2])]
        record_labels ==
            SelectSeq(export_record.labels, LAMBDA label : label[1] \notin Keys(resource_attributes))
    IN [labels |-> name_label \o resource_labels
                   \o [i \in 1..Len(record_labels) |->
                            create_label(record_labels[i][1], record_labels[i][2])],
        samples |-> <<create_sample(export_record.aggregator.last_update_timestamp, value)>>]

----------------------------------------------------------------------------
\* The aggregate converters.

\* a variant that names the series <name>_sum
convert_from_sum_suffixed(sum_record) ==
    LET name == sum_record.instrument.name \o <<"_", "s", "u", "m">>
        value == sum_record.aggregator.checkpoint
    IN <<create_timeseries(sum_record, name, value)>>

convert_from_sum(sum_record) ==
    LET name == sum_record.instrument.name
        value == sum_record.aggregator.checkpoint
    IN <<create_timeseries(sum_record, name, value)>>

\* a variant that emits the maximum before the minimum
convert_from_min_max_sum_count_swapped(min_max_sum_count_record) ==
    LET agg_types == <<<<"m", "a", "x">>, <<"m", "i", "n">>, <<"s", "u", "m">>,
                       <<"c", "o", "u", "n", "t">>>>
        fields == <<"max", "min", "sum", "count">>
    IN [i \in 1..Len(agg_types) |->
            create_timeseries(min_max_sum_count_record,
                              min_max_sum_count_record.instrument.name \o <<"_">> \o agg_types[i],
                              min_max_sum_count_record.aggregator.checkpoint[fields[i]])]

convert_from_min_max_sum_count(min_max_sum_count_record) ==
    LET agg_types == <<<<"m", "i", "n">>, <<"m", "a", "x">>, <<"s", "u", "m">>,
                       <<"c", "o", "u", "n", "t">>>>
        fields == <<"min", "max", "sum", "count">>
    IN [i \in 1..Len(agg_types) |->
            create_timeseries(min_max_sum_count_record,
                              min_max_sum_count_record.instrument.name \o <<"_">> \o agg_types[i],
                              min_max_sum_count_record.aggregator.checkpoint[fields[i]])]

\* "+Inf" if bound == float("inf") else str(bound)
BoundText(bound) ==
    IF bound.t = "float" /\ bound.v = inf THEN <<"+", "I", "n", "f">> ELSE str(bound.v)

\* the loop over checkpoint.keys(): items i.. are still to visit, timeseries and
\* count are the loop's accumulators
RECURSIVE HistogramLoop(_, _, _, _)
HistogramLoop(histogram_record, i, timeseries, count) ==
    LET items == histogram_record.aggregator.checkpoint.items
    IN IF i > Len(items)
       THEN [timeseries |-> timeseries, count |-> count]
       ELSE LET bound == items[i][1]
                bb == BoundText(bound)
                name == histogram_record.instrument.name
                        \o <<"_", "b", "u", "c", "k", "e", "t", "{", "l", "e", "=", "\"">>
                        \o bb \o <<"\"", "}">>
                value == items[i][2]
            IN HistogramLoop(histogram_record, i + 1,
                             Append(timeseries, create_timeseries(histogram_record, name, value)),
                             count + value.v)

\* a variant whose bucket series carry the cumulative counts
convert_from_histogram_cumulative(histogram_record) ==
    LET items == histogram_record.aggregator.checkpoint.items
        plain == HistogramLoop(histogram_record, 1, <<>>, 0)
        upto(i) == SumSeq([j \in 1..i |-> items[j][2].v])
        name == histogram_record.instrument.name \o <<"_", "c", "o", "u", "n", "t">>
    IN Append([i \in 1..Len(items) |->
                  [plain.timeseries[i] EXCEPT !.samples[1].value = PyInt(upto(i))]],
              create_timeseries(histogram_record, name, float(PyInt(plain.count))))

convert_from_histogram(histogram_record) ==
    LET loop == HistogramLoop(histogram_record, 1, <<>>, 0)
        name == histogram_record.instrument.name \o <<"_", "c", "o", "u", "n", "t">>
    IN Append(loop.timeseries,
              create_timeseries(histogram_record, name, float(PyInt(loop.count))))

\* a variant that takes the largest update, not the latest
convert_from_last_value_max(last_value_record) ==
    LET name == last_value_record.instrument.name
        value == PyInt(MaxSeq(last_value_record.aggregator.updates))
    IN <<create_timeseries(last_value_record, name, value)>>

convert_from_last_value(last_value_record) ==
    LET name == last_value_record.instrument.name
        value == last_value_record.aggregator.checkpoint
    IN <<create_timeseries(last_value_record, name, value)>>

\* a variant that leaves out the last value
convert_from_value_observer_without_last(value_observer_record) ==
    LET agg_types == <<<<"m", "i", "n">>, <<"m", "a", "x">>, <<"s", "u", "m">>,
                       <<"c", "o", "u", "n", "t">>>>
        fields == <<"min", "max", "sum", "count">>
    IN [i \in 1..Len(agg_types) |->
            create_timeseries(value_observer_record,
                              value_observer_record.instrument.name \o <<"_">> \o agg_types[i],
                              value_observer_record.aggregator.checkpoint[fields[i]])]

convert_from_value_observer(value_observer_record) ==
    LET agg_types == <<<<"m", "i", "n">>, <<"m", "a", "x">>, <<"s", "u", "m">>,
                       <<"c", "o", "u", "n", "t">>, <<"l", "a", "s", "t">>>>
        fields == <<"min", "max", "sum", "count", "last">>
    IN [i \in 1..Len(agg_types) |->
            create_timeseries(value_observer_record,
                              value_observer_record.instrument.name \o <<"_">> \o agg_types[i],
                              value_observer_record.aggregator.checkpoint[fields[i]])]

\* the body is "pass": the call returns None
convert_from_quantile(summary_record) == None

----------------------------------------------------------------------------
\* The conversion dispatcher.

\* converter_map.get(aggregator_type): the converter's name, or None
converter_map(aggregator_type) ==
    CASE aggregator_type = "MinMaxSumCountAggregator" -> "convert_from_min_max_sum_count"
      [] aggregator_type = "SumAggregator" -> "convert_from_sum"
      [] aggregator_type = "HistogramAggregator" -> "convert_from_histogram"
      [] aggregator_type = "LastValueAggregator" -> "convert_from_last_value"
      [] aggregator_type = "ValueObserverAggregator" -> "convert_from_last_value"
      [] OTHER -> "None"

\* converter(export_record)
Converter(converter, export_record) ==
    CASE converter = "convert_from_min_max_sum_count" ->
            convert_from_min_max_sum_count(export_record)
      [] converter = "convert_from_sum" -> convert_from_sum(export_record)
      [] converter = "convert_from_histogram" -> convert_from_histogram(export_record)
      [] converter = "convert_from_last_value" -> convert_from_last_value(export_record)
      [] converter = "convert_from_value_observer" ->
            convert_from_value_observer(export_record)

\* a variant that puts the new series in front
extend_front(timeseries, items) == items \o timeseries

\* timeseries.extend(items)
extend(timeseries, items) == timeseries \o items

\* the loop over export_records: records i.. are still to visit
RECURSIVE ConvertLoop(_, _, _)
ConvertLoop(export_records, i, timeseries) ==
    IF i > Len(export_records)
    THEN Return(timeseries)
    ELSE LET export_record == export_records[i]
             aggregator_type == export_record.aggregator.type
             converter == converter_map(aggregator_type)
         IN IF converter = "None"
            THEN Raise("ValueError")
            ELSE ConvertLoop(export_records, i + 1,
                             extend(timeseries, Converter(converter, export_record)))

\* a variant that skips a record without a converter and keeps the rest
RECURSIVE SkippingLoop(_, _, _)
SkippingLoop(export_records, i, timeseries) ==
    IF i > Len(export_records)
    THEN Return(timeseries)
    ELSE LET export_record == export_records[i]
             converter == converter_map(export_record.aggregator.type)
         IN IF converter = "None"
            THEN SkippingLoop(export_records, i + 1, timeseries)
            ELSE SkippingLoop(export_records, i + 1,
                              extend(timeseries, Converter(converter, export_record)))

convert_to_timeseries_skipping(export_records) == SkippingLoop(export_records, 1, <<>>)

convert_to_timeseries(export_records) == ConvertLoop(export_records, 1, <<>>)

----------------------------------------------------------------------------
\* Config: the object's attributes are a function from attribute name to value;
\* an attribute that was never assigned is not in its domain.

\* hasattr(config, name): the property's getter reads the attribute "_" + name
hasattr(cfg, name) == ("_" \o name) \in DOMAIN cfg

\* the endpoint setter
set_endpoint(cfg, endpoint) ==
    IF endpoint.v = ""
    THEN Raise("ValueError")
    ELSE Return(("_endpoint" :> endpoint) @@ cfg)

\* the basic_auth setter
set_basic_auth(cfg, basic_auth) ==
    IF hasattr(cfg, "bearer_token") \/ hasattr(cfg, "bearer_token_file")
    THEN Raise("ValueError")
    ELSE IF "username" \notin DOMAIN basic_auth.v
    THEN Raise("ValueError")
    ELSE IF "password" \notin DOMAIN basic_auth.v /\ "password_file" \notin DOMAIN basic_auth.v
    THEN Raise("ValueError")
    ELSE IF "password" \in DOMAIN basic_auth.v /\ "password_file" \in DOMAIN basic_auth.v
    THEN Raise("ValueError")
    ELSE Return(("_basic_auth" :> basic_auth) @@ cfg)

\* the bearer_token setter
set_bearer_token(cfg, bearer_token) ==
    IF hasattr(cfg, "basic_auth")
    THEN Raise("ValueError")
    ELSE IF hasattr(cfg, "bearer_token_file")
    THEN Raise("ValueError")
    ELSE Return(("_bearer_token" :> bearer_token) @@ cfg)

\* the bearer_token_file setter
set_bearer_token_file(cfg, bearer_token_file) ==
    IF hasattr(cfg, "basic_auth")
    THEN Raise("ValueError")
    ELSE IF hasattr(cfg, "bearer_token")
    THEN Raise("ValueError")
    ELSE Return(("_bearer_token_file" :> bearer_token_file) @@ cfg)

\* the headers setter
set_headers(cfg, headers) == Return(("_headers" :> headers) @@ cfg)

\* Config.__init__: the setters run in this order, each only for a true argument;
\* the first one that raises ends the construction.
Config_init(args) ==
    LET s1 == set_endpoint(<<>>, args.endpoint)
        s2 == IF s1.ok /\ Truthy(args.basic_auth)
              THEN set_basic_auth(s1.val, args.basic_auth) ELSE s1
        s3 == IF s2.ok /\ Truthy(args.bearer_token)
              THEN set_bearer_token(s2.val, args.bearer_token) ELSE s2
        s4 == IF s3.ok /\ Truthy(args.bearer_token_file)
              THEN set_bearer_token_file(s3.val, args.bearer_token_file) ELSE s3
        s5 == IF s4.ok /\ Truthy(args.headers)
              THEN set_headers(s4.val, args.headers) ELSE s4
    IN s5

----------------------------------------------------------------------------
\* The file system: a file is Missing, or a sequence of lines, each a text
\* and the line terminator that ends it ("" for a last line without one).

Missing == [t |-> "missing"]

File(lines) == [t |-> "file", lines |-> lines]

\* open(name) followed by readline(): the first line with its terminator
open_readline(fs, name) ==
    IF fs[name] = Missing
    THEN Raise("FileNotFoundError")
    ELSE Return(IF fs[name].lines = <<>> THEN ""
                ELSE fs[name].lines[1].text \o fs[name].lines[1].end)

----------------------------------------------------------------------------
\* Message builder and transport.

\* write_request.SerializeToString() of a WriteRequest holding the series
SerializeToString(timeseries) == [proto |-> "WriteRequest", timeseries |-> timeseries]

snappy_compress(serialized_message) == [snappy |-> serialized_message]

build_message(timeseries) == snappy_compress(SerializeToString(timeseries))

\* a variant in which a header already present keeps its value
Update_keeping(headers, items) ==
    [k \in DOMAIN headers \cup DOMAIN items |-> IF k \in DOMAIN headers THEN headers[k] ELSE items[k]]

\* headers[header_name] = header_value for every item of the dict
Update(headers, items) ==
    [k \in DOMAIN headers \cup DOMAIN items |-> IF k \in DOMAIN items THEN items[k] ELSE headers[k]]

get_headers(cfg, fs) ==
    LET fixed == ("Content-Encoding" :> "snappy")
                 @@ ("Content-Type" :> "application/x-protobuf")
                 @@ ("X-Prometheus-Remote-Write-Version" :> "0.1.0")
        headers == IF hasattr(cfg, "headers") THEN Update(fixed, cfg["_headers"].v) ELSE fixed
    IN IF "Authorization" \notin DOMAIN headers
       THEN IF hasattr(cfg, "bearer_token")
            THEN Return(("Authorization" :> ("Bearer " \o cfg["_bearer_token"].v)) @@ headers)
            ELSE IF hasattr(cfg, "bearer_token_file")
            THEN LET line == open_readline(fs, cfg["_bearer_token_file"].v)
                 IN IF line.ok
                    THEN Return(("Authorization" :> ("Bearer " \o line.val)) @@ headers)
                    ELSE line
            ELSE Return(headers)
       ELSE Return(headers)

\* obj.name of a dict obj: a dict has its keys as items, not as attributes
getattr_dict(obj, name) == Raise("AttributeError")

\* send_message, up to the POST: the auth argument, or the error raised
resolve_auth(cfg, fs) ==
    IF hasattr(cfg, "basic_auth")
    THEN LET basic_auth == cfg["_basic_auth"]
         IN IF "password" \in DOMAIN basic_auth.v
            THEN LET username == getattr_dict(basic_auth, "username")
                     password == getattr_dict(basic_auth, "password")
                 IN IF ~username.ok THEN username
                    ELSE IF ~password.ok THEN password
                    ELSE Return(<<username.val, password.val>>)
            ELSE LET password_file == getattr_dict(basic_auth, "password_file")
                     username == getattr_dict(basic_auth, "username")
                 IN IF ~password_file.ok THEN password_file
                    ELSE LET line == open_readline(fs, password_file.val)
                         IN IF ~line.ok THEN line
                            ELSE IF ~username.ok THEN username
                            ELSE Return(<<username.val, line.val>>)
    ELSE Return(None)

\* a variant that sends the request a second time
requests_post_twice(posts, request) == Append(Append(posts, request), request)

\* requests.post(url, data=, headers=, auth=): the request goes out
requests_post(posts, request) == Append(posts, request)

HTTP_OK == 200

\* a variant that takes every status below 400 for a success
send_message_result_lenient(status_code) ==
    IF status_code >= 400 THEN Return("FAILURE") ELSE Return("SUCCESS")

\* send_message, from the response on
send_message_result(status_code) ==
    IF status_code # HTTP_OK THEN Return("FAILURE") ELSE Return("SUCCESS")

\* a variant that computes the headers before it builds the message
ExportSteps_headers_first ==
    <<"convert_to_timeseries", "get_headers", "build_message", "send_message">>

\* export's statements, in order
ExportSteps == <<"convert_to_timeseries", "build_message", "get_headers", "send_message">>

\* the statement that runs when the given one has returned
StepAfter(step) ==
    LET i == CHOOSE j \in 1..Len(ExportSteps) : ExportSteps[j] = step
    IN IF i < Len(ExportSteps) THEN ExportSteps[i + 1] ELSE "return"

\* return self.send_message(message, headers)
export_return(send_message_outcome) == send_message_outcome

----------------------------------------------------------------------------
\* The inputs the model draws from.

Threads == {"t1", "t2"}
\* the threads that call export
Callers == {"t1"}

\* values passed to update()
Values == {-1, 2, 3}

testname == <<"t", "n">>

\* resource attributes and record-level labels; the second record label's name
\* is also a resource attribute's name
Attributes == << <<<<"r", "n">>, <<"r", "v">>>> >>
Labels == << <<<<"k", "/", "@", "m">>, <<"v">>>>, <<<<"r", "n">>, <<"x">>>> >>

BoundariesPool == {<<0>>, <<0, 3>>}

\* the records given to a converter called on its own
ConverterRecords ==
    {ExportRecord(testname, labels, kind, boundaries, updates, ts, attributes) :
        labels \in {<<>>, Labels}, attributes \in {<<>>, Attributes},
        kind \in {"SumAggregator"}, boundaries \in {<<>>},
        updates \in SeqsOf(Values, 0, MaxUpdates), ts \in {WideOf(10), WideOf(2500000)}}
    \cup
    {ExportRecord(testname, Labels, kind, <<>>, updates, WideOf(10), Attributes) :
        kind \in {"MinMaxSumCountAggregator", "LastValueAggregator", "ValueObserverAggregator"},
        updates \in SeqsOf(Values, 1, MaxUpdates)}
    \cup
    {ExportRecord(testname, Labels, "HistogramAggregator", boundaries, updates, WideOf(10), Attributes) :
        boundaries \in BoundariesPool, updates \in SeqsOf(Values, 0, MaxUpdates)}

\* the records handed to export and to convert_to_timeseries
ExportRecordPool ==
    {ExportRecord(testname, Labels, kind, <<0>>, <<3, 2, -1>>, WideOf(10), Attributes) :
        kind \in SupportedKinds}
    \cup {ExportRecord(testname, Labels, UnsupportedKind, <<>>, <<>>, WideOf(10), Attributes)}

ExportRecordLists == SeqsOf(ExportRecordPool, 0, MaxRecords)

\* label names given to create_label: legal characters of each class and two
\* illegal ones, in every arrangement up to MaxNameLen characters
MaxNameLen == 4
Chars == {"a", "Z", "7", "_", "/", "@"}
LabelNames == SeqsOf(Chars, 0, MaxNameLen)
LabelValues == {<<"v">>, <<"k", "/", "@">>}

\* nanosecond timestamps given to create_sample: small ones, present-day ones
\* and the ends of the 64-bit range
Timestamps ==
    {n \in {Wide(neg, <<d1, d2, d3, d4>>) :
                neg \in BOOLEAN, d1 \in {0, 1, 9}, d2 \in {0, 17179, 223372, 700000},
                d3 \in {0, 999, 36854, 869183, 869184},
                d4 \in {0, 1, 775807, 775808, 999877, 999878, 999999}} : InInt64(n)}

\* records given to create_timeseries: none, one or two resource attributes,
\* and record labels of which one has the name of a resource attribute
TwoAttributes == Attributes \o << <<<<"a", "/", "b">>, <<"w">>>> >>
ThreeLabels == Labels \o << <<<<"a", "_", "b">>, <<"y">>>> >>
\* a record label that is itself called __name__
NameLabels == << <<<<"_", "_", "n", "a", "m", "e", "_", "_">>, <<"x">>>> >>
TimeseriesRecords ==
    {ExportRecord(testname, labels, "SumAggregator", <<>>, <<2>>, ts, attributes) :
        labels \in {<<>>, Labels, ThreeLabels, NameLabels},
        attributes \in {<<>>, Attributes, TwoAttributes},
        ts \in {WideOf(10), WideOf(2500000)}}
SeriesNames == {testname, testname \o <<"_", "s", "u", "m">>}

\* the arguments given to Config(...)
ConfigArgs ==
    [endpoint : {PyStr("http://cortex/push")},
     basic_auth : {None,
                   PyDict(("username" :> "u") @@ ("password" :> "p")),
                   PyDict(("username" :> "u") @@ ("password_file" :> "pwfile"))},
     bearer_token : {None, PyStr("tok")},
     bearer_token_file : {None, PyStr("tokfile")},
     headers : {None,
                PyDict("X-Scope-Org-ID" :> "5"),
                PyDict(("Authorization" :> "Custom") @@ ("Content-Type" :> "text/plain"))}]

\* the Config objects that construction yields
Configs == {Config_init(args).val : args \in {a \in ConfigArgs : Config_init(a).ok}}

\* the states of the credential files: absent, written with a final newline
\* (as an editor or echo writes it), or written without one
TokenFiles ==
    {Missing, File(<<[text |-> "secret", end |-> "\n"]>>), File(<<[text |-> "rotated", end |-> ""]>>)}
PasswordFiles == {Missing, File(<<[text |-> "secret", end |-> "\n"]>>)}
FileSystems ==
    {[tokfile |-> token_file, pwfile |-> password_file] :
        token_file \in TokenFiles, password_file \in PasswordFiles}

\* the status codes a server answers with
StatusCodes == {200, 201, 404, 500}

----------------------------------------------------------------------------
\* The state machine.

Idle ==
    [pc |-> "idle", export_records |-> <<>>, timeseries |-> None, message |-> None,
     headers |-> None, trace |-> <<>>, posts |-> <<>>, response |-> None,
     send_message_outcome |-> None, outcome |-> None]

NoCall == [op |-> "none", arg |-> None, outcome |-> None]

Init ==
    /\ config \in Configs
    /\ files \in FileSystems
    /\ thread = [t \in Threads |-> Idle]
    /\ call = NoCall

\* a variant in which export catches the error and returns FAILURE
Advance_catching(th, step, r) ==
    IF ~r.ok
    THEN [th EXCEPT !.pc = "done", !.outcome = Return("FAILURE"),
                    !.trace = th.trace \o <<<<step, "call">>, <<step, "raise">>>>]
    ELSE [th EXCEPT !.pc = StepAfter(step),
                    !.trace = th.trace \o <<<<step, "call">>, <<step, "return">>>>]

\* a statement of export has finished with the given outcome: export goes on to
\* the next statement, returns, or ends with the error raised
Advance(th, step, r) ==
    IF ~r.ok
    THEN [th EXCEPT !.pc = "done", !.outcome = r,
                    !.trace = th.trace \o <<<<step, "call">>, <<step, "raise">>>>]
    ELSE [th EXCEPT !.pc = StepAfter(step),
                    !.trace = th.trace \o <<<<step, "call">>, <<step, "return">>>>]

\* a caller invokes export(export_records)
Export(t, export_records) ==
    /\ thread[t].pc = "idle"
    /\ thread' = [thread EXCEPT ![t] = [Idle EXCEPT !.pc = ExportSteps[1],
                                                    !.export_records = export_records]]
    /\ UNCHANGED <<config, files, call>>

\* timeseries = self.convert_to_timeseries(export_records)
ConvertToTimeseries(t) ==
    /\ thread[t].pc = "convert_to_timeseries"
    /\ LET r == convert_to_timeseries(thread[t].export_records)
           th == Advance(thread[t], "convert_to_timeseries", r)
       IN thread' = [thread EXCEPT ![t] =
                        IF r.ok THEN [th EXCEPT !.timeseries = r.val] ELSE th]
    /\ UNCHANGED <<config, files, call>>

\* a variant in which the converted series are kept in a field of the exporter
\* that every call overwrites: the message is built from some call's series
BuildMessage_shared(t) ==
    /\ thread[t].pc = "build_message"
    /\ \E u \in Threads :
        /\ \E i \in 1..Len(thread[u].trace) :
                thread[u].trace[i] = <<"convert_to_timeseries", "return">>
        /\ LET r == Return(build_message(thread[u].timeseries))
               th == Advance(thread[t], "build_message", r)
           IN thread' = [thread EXCEPT ![t] = [th EXCEPT !.message = r.val]]
    /\ UNCHANGED <<config, files, call>>

\* message = self.build_message(timeseries)
BuildMessage(t) ==
    /\ thread[t].pc = "build_message"
    /\ LET r == Return(build_message(thread[t].timeseries))
           th == Advance(thread[t], "build_message", r)
       IN thread' = [thread EXCEPT ![t] = [th EXCEPT !.message = r.val]]
    /\ UNCHANGED <<config, files, call>>

\* headers = self.get_headers()
GetHeaders(t) ==
    /\ thread[t].pc = "get_headers"
    /\ LET r == get_headers(config, files)
           th == Advance(thread[t], "get_headers", r)
       IN thread' = [thread EXCEPT ![t] =
                        IF r.ok THEN [th EXCEPT !.headers = r.val] ELSE th]
    /\ UNCHANGED <<config, files, call>>

\* self.send_message(message, headers), up to and including requests.post: the
\* call blocks until the server answers
SendMessage(t) ==
    /\ thread[t].pc = "send_message"
    /\ LET auth == resolve_auth(config, files)
           th == thread[t]
       IN thread' = [thread EXCEPT ![t] =
            IF ~auth.ok
            THEN [th EXCEPT !.pc = "done", !.outcome = auth, !.send_message_outcome = auth,
                            !.trace = th.trace \o <<<<"send_message", "call">>,
                                                    <<"send_message", "raise">>>>]
            ELSE [th EXCEPT !.pc = "requests_post",
                            !.trace = Append(th.trace, <<"send_message", "call">>),
                            !.posts = requests_post(th.posts,
                                        [url |-> config["_endpoint"].v, data |-> th.message,
                                         headers |-> th.headers, auth |-> auth.val])]]
    /\ UNCHANGED <<config, files, call>>

\* the server answers the POST; send_message returns, and export returns its result
Response(t, status_code) ==
    /\ thread[t].pc = "requests_post"
    /\ LET r == send_message_result(status_code)
           th == thread[t]
       IN thread' = [thread EXCEPT ![t] =
            [th EXCEPT !.pc = IF StepAfter("send_message") = "return"
                              THEN "done" ELSE StepAfter("send_message"),
                       !.response = [t |-> "Response", status_code |-> status_code],
                       !.send_message_outcome = r,
                       !.outcome = IF StepAfter("send_message") = "return"
                                   THEN export_return(r) ELSE th.outcome,
                       !.trace = Append(th.trace, <<"send_message", "return">>)]]
    /\ UNCHANGED <<config, files, call>>

\* the caller has taken export's outcome; the call's locals are gone
Finish(t) ==
    /\ thread[t].pc = "done"
    /\ thread' = [thread EXCEPT ![t] = Idle]
    /\ UNCHANGED <<config, files, call>>

\* between two exports somebody rewrites, rotates or removes the credential files
WriteFiles(fs) ==
    /\ \A t \in Threads : thread[t].pc = "idle"
    /\ fs # files
    /\ files' = fs
    /\ UNCHANGED <<config, thread, call>>

Next ==
    \/ \E fs \in FileSystems : WriteFiles(fs)
    \/ \E t \in Callers, export_records \in ExportRecordLists : Export(t, export_records)
    \/ \E t \in Callers : ConvertToTimeseries(t)
    \/ \E t \in Callers : BuildMessage(t)
    \/ \E t \in Callers : GetHeaders(t)
    \/ \E t \in Callers : SendMessage(t)
    \/ \E t \in Callers, status_code \in StatusCodes : Response(t, status_code)
    \/ \E t \in Callers : Finish(t)

Spec == Init /\ [][Next]_vars

----------------------------------------------------------------------------
\* Two threads call export on the same exporter, one after the other or at the
\* same time; their statements interleave in every order.

\* the record lists the two threads export: different ones give different payloads
ConcurrentRecordLists ==
    LET record(kind) == ExportRecord(testname, Labels, kind, <<0>>, <<3, 2, -1>>,
                                     WideOf(10), Attributes)
    IN {<<record("SumAggregator")>>,
        <<record("HistogramAggregator"), record("SumAggregator")>>,
        <<record(UnsupportedKind)>>}

ConcurrentNext ==
    \/ \E fs \in FileSystems : WriteFiles(fs)
    \/ \E t \in Threads, export_records \in ConcurrentRecordLists : Export(t, export_records)
    \/ \E t \in Threads : ConvertToTimeseries(t)
    \/ \E t \in Threads : BuildMessage(t)
    \/ \E t \in Threads : GetHeaders(t)
    \/ \E t \in Threads : SendMessage(t)
    \/ \E t \in Threads, status_code \in {200, 500} : Response(t, status_code)
    \/ \E t \in Threads : Finish(t)

ConcurrentSpec == Init /\ [][ConcurrentNext]_vars

----------------------------------------------------------------------------
\* The converters called on their own, as a caller other than export (a test,
\* another exporter) calls them.

PlainConfig ==
    Config_init([endpoint |-> PyStr("http://cortex/push"), basic_auth |-> None,
                 bearer_token |-> None, bearer_token_file |-> None, headers |-> None]).val

ConvInit ==
    /\ config = PlainConfig
    /\ files = [f \in {"tokfile", "pwfile"} |-> Missing]
    /\ thread = [t \in Threads |-> Idle]
    /\ call = NoCall

Called(op, arg, outcome) == [op |-> op, arg |-> arg, outcome |-> outcome]

OfKind(kind) == {r \in ConverterRecords : r.aggregator.type = kind}

CallConvertToTimeseries(export_records) ==
    /\ call = NoCall
    /\ call' = Called("convert_to_timeseries", export_records, convert_to_timeseries(export_records))
    /\ UNCHANGED <<config, files, thread>>

CallConvertFromSum(record) ==
    /\ call = NoCall
    /\ call' = Called("convert_from_sum", record, Return(convert_from_sum(record)))
    /\ UNCHANGED <<config, files, thread>>

CallConvertFromMinMaxSumCount(record) ==
    /\ call = NoCall
    /\ call' = Called("convert_from_min_max_sum_count", record, Return(convert_from_min_max_sum_count(record)))
    /\ UNCHANGED <<config, files, thread>>

CallConvertFromHistogram(record) ==
    /\ call = NoCall
    /\ call' = Called("convert_from_histogram", record, Return(convert_from_histogram(record)))
    /\ UNCHANGED <<config, files, thread>>

CallConvertFromLastValue(record) ==
    /\ call = NoCall
    /\ call' = Called("convert_from_last_value", record, Return(convert_from_last_value(record)))
    /\ UNCHANGED <<config, files, thread>>

CallConvertFromValueObserver(record) ==
    /\ call = NoCall
    /\ call' = Called("convert_from_value_observer", record, Return(convert_from_value_observer(record)))
    /\ UNCHANGED <<config, files, thread>>

CallConvertFromQuantile(record) ==
    /\ call = NoCall
    /\ call' = Called("convert_from_quantile", record, Return(convert_from_quantile(record)))
    /\ UNCHANGED <<config, files, thread>>

CallCreateTimeseries(export_record, name, value) ==
    /\ call = NoCall
    /\ call' = Called("create_timeseries",
                      [export_record |-> export_record, name |-> name, value |-> value],
                      Return(create_timeseries(export_record, name, value)))
    /\ UNCHANGED <<config, files, thread>>

CallCreateSample(timestamp, value) ==
    /\ call = NoCall
    /\ call' = Called("create_sample", [timestamp |-> timestamp, value |-> value],
                      Return(create_sample(timestamp, value)))
    /\ UNCHANGED <<config, files, thread>>

CallCreateLabel(name, value) ==
    /\ call = NoCall
    /\ call' = Called("create_label", [name |-> name, value |-> value],
                      Return(create_label(name, value)))
    /\ UNCHANGED <<config, files, thread>>

\* the caller has taken the outcome; nothing of the call is left behind
ReturnToCaller ==
    /\ call # NoCall
    /\ call' = NoCall
    /\ UNCHANGED <<config, files, thread>>

\* a caller makes one call at a time
ConvNext ==
    \/ call = NoCall /\ \E export_records \in ExportRecordLists : CallConvertToTimeseries(export_records)
    \/ call = NoCall /\ \E record \in OfKind("SumAggregator") : CallConvertFromSum(record)
    \/ call = NoCall /\ \E record \in OfKind("MinMaxSumCountAggregator") : CallConvertFromMinMaxSumCount(record)
    \/ call = NoCall /\ \E record \in OfKind("HistogramAggregator") : CallConvertFromHistogram(record)
    \/ call = NoCall /\ \E record \in OfKind("LastValueAggregator") : CallConvertFromLastValue(record)
    \/ call = NoCall /\ \E record \in OfKind("ValueObserverAggregator") : CallConvertFromValueObserver(record)
    \/ call = NoCall /\ \E record \in ExportRecordPool : CallConvertFromQuantile(record)
    \/ call = NoCall /\ \E export_record \in TimeseriesRecords, name \in SeriesNames, v \in Values :
            CallCreateTimeseries(export_record, name, PyInt(v))
    \/ call = NoCall /\ \E timestamp \in Timestamps, v \in Values : CallCreateSample(timestamp, PyInt(v))
    \/ call = NoCall /\ \E name \in LabelNames, value \in LabelValues : CallCreateLabel(name, value)
    \/ ReturnToCaller

ConvSpec == ConvInit /\ [][ConvNext]_vars

----------------------------------------------------------------------------
\* Config on its own: a caller constructs a Config and later assigns to its
\* auth properties. config is None until a construction has returned.

AuthModes == {"basic_auth", "bearer_token", "bearer_token_file"}

\* every mapping over the keys the basic_auth setter looks at, the empty one included
BasicAuthItems == ("username" :> "u") @@ ("password" :> "p") @@ ("password_file" :> "pwfile")
BasicAuthMappings ==
    {PyDict([k \in keys |-> BasicAuthItems[k]]) : keys \in SUBSET (DOMAIN BasicAuthItems)}

\* the arguments given to Config(...), valid or not, empty values included
ConstructorArgs ==
    [endpoint : {PyStr(""), PyStr("http://cortex/push")},
     basic_auth : {None} \cup BasicAuthMappings,
     bearer_token : {None, PyStr(""), PyStr("tok")},
     bearer_token_file : {None, PyStr(""), PyStr("tokfile")},
     headers : {None, PyDict("X-Scope-Org-ID" :> "5")}]

ConfigInit ==
    /\ config = None
    /\ files = [f \in {"tokfile", "pwfile"} |-> Missing]
    /\ thread = [t \in Threads |-> Idle]
    /\ call = NoCall

\* Config(endpoint, basic_auth, bearer_token, bearer_token_file, headers): the
\* caller gets the object only if __init__ returns
Construct(args) ==
    /\ config = None
    /\ LET r == Config_init(args)
       IN /\ call' = Called("Config", args, IF r.ok THEN Return("Config") ELSE r)
          /\ config' = IF r.ok THEN r.val ELSE config
    /\ UNCHANGED <<files, thread>>

\* the outcome of an assignment: the object is changed only if the setter returns
Assigned(name, value, r) ==
    /\ call' = Called(name, [config |-> config, value |-> value],
                      IF r.ok THEN Return(None) ELSE r)
    /\ config' = IF r.ok THEN r.val ELSE config
    /\ UNCHANGED <<files, thread>>

\* config.basic_auth = basic_auth
AssignBasicAuth(basic_auth) ==
    /\ config # None
    /\ Assigned("basic_auth", basic_auth, set_basic_auth(config, basic_auth))

\* config.bearer_token = bearer_token
AssignBearerToken(bearer_token) ==
    /\ config # None
    /\ Assigned("bearer_token", bearer_token, set_bearer_token(config, bearer_token))

\* config.bearer_token_file = bearer_token_file
AssignBearerTokenFile(bearer_token_file) ==
    /\ config # None
    /\ Assigned("bearer_token_file", bearer_token_file,
                set_bearer_token_file(config, bearer_token_file))

ConfigNext ==
    \/ \E args \in ConstructorArgs : Construct(args)
    \/ \E basic_auth \in BasicAuthMappings : AssignBasicAuth(basic_auth)
    \/ \E bearer_token \in {PyStr(""), PyStr("tok")} : AssignBearerToken(bearer_token)
    \/ \E bearer_token_file \in {PyStr(""), PyStr("tokfile")} :
            AssignBearerTokenFile(bearer_token_file)

ConfigSpec == ConfigInit /\ [][ConfigNext]_vars

----------------------------------------------------------------------------
\* Properties of the converters and of the dispatcher (under ConvSpec).

NameLabel(name) == [name |-> <<"_", "_", "n", "a", "m", "e", "_", "_">>, value |-> name]

HasUnsupported(export_records) ==
    \E i \in 1..Len(export_records) : export_records[i].aggregator.type \notin SupportedKinds

\* C5: convert_to_timeseries raises the unsupported-kind error (ValueError), and
\* so yields no series at all, whenever some record of its input, at any
\* position, has a kind without a converter.
C5_UnsupportedKindAbortsConversion ==
    (call.op = "convert_to_timeseries" /\ HasUnsupported(call.arg))
        => call.outcome = Raise("ValueError")

\* an unsupported record after a record that converted
C5_Witness ==
    /\ call.op = "convert_to_timeseries"
    /\ Len(call.arg) = 2
    /\ call.arg[1].aggregator.type = "HistogramAggregator"
    /\ call.arg[2].aggregator.type = UnsupportedKind
    /\ call.outcome = Raise("ValueError")

\* the series the record's own converter gives
SeriesOf(export_record) ==
    LET kind == export_record.aggregator.type
    IN CASE kind = "SumAggregator" -> convert_from_sum(export_record)
         [] kind = "MinMaxSumCountAggregator" -> convert_from_min_max_sum_count(export_record)
         [] kind = "HistogramAggregator" -> convert_from_histogram(export_record)
         [] kind \in {"LastValueAggregator", "ValueObserverAggregator"} ->
                convert_from_last_value(export_record)

\* the number of series that the records before record i give
Offset(export_records, i) == SumSeq([j \in 1..(i - 1) |-> Len(SeriesOf(export_records[j]))])

C7_HistogramSeries ==
    call.op = "convert_from_histogram"
        => LET items == call.arg.aggregator.checkpoint.items
               n == Len(items)
               out == call.outcome.val
               name == call.arg.instrument.name
               le(bound) == IF bound.t = "float" THEN <<"+", "I", "n", "f">> ELSE str(bound.v)
           IN /\ call.outcome.ok
              /\ Len(out) = n + 1
              /\ \A i \in 1..n :
                    /\ out[i].labels[1] =
                         NameLabel(name \o <<"_", "b", "u", "c", "k", "e", "t", "{", "l", "e", "=", "\"">>
                                   \o le(items[i][1]) \o <<"\"", "}">>)
                    /\ out[i].samples[1].value.v = items[i][2].v
                    /\ Len(out[i].samples) = 1
              /\ out[n + 1].labels[1] = NameLabel(name \o <<"_", "c", "o", "u", "n", "t">>)
              /\ out[n + 1].samples[1].value.v = SumSeq([i \in 1..n |-> items[i][2].v])

\* updates 3, 2, -1 against the bounds 0 and +Inf: le="0" has 1, le="+Inf" has 2,
\* and the count is 3
C7_Witness ==
    /\ call.op = "convert_from_histogram"
    /\ call.arg.aggregator.boundaries = <<0>>
    /\ call.arg.aggregator.updates = <<3, 2, -1>>
    /\ Len(call.outcome.val) = 3
    /\ call.outcome.val[1].labels[1].value =
            <<"t", "n", "_", "b", "u", "c", "k", "e", "t", "{", "l", "e", "=", "\"", "0", "\"", "}">>
    /\ call.outcome.val[1].samples[1].value.v = 1
    /\ call.outcome.val[2].labels[1].value =
            <<"t", "n", "_", "b", "u", "c", "k", "e", "t", "{", "l", "e", "=", "\"",
              "+", "I", "n", "f", "\"", "}">>
    /\ call.outcome.val[2].samples[1].value.v = 2
    /\ call.outcome.val[3].samples[1].value.v = 3

\* C8: a ValueObserver record passed through convert_to_timeseries gives exactly
\* one series, named <name>, whose sample value is the scalar last value of the
\* checkpoint.
C8_ValueObserverYieldsLast ==
    (/\ call.op = "convert_to_timeseries"
     /\ Len(call.arg) = 1
     /\ call.arg[1].aggregator.type = "ValueObserverAggregator")
        => /\ call.outcome.ok
           /\ Len(call.outcome.val) = 1
           /\ call.outcome.val[1].labels[1] = NameLabel(call.arg[1].instrument.name)
           /\ call.outcome.val[1].samples[1].value = call.arg[1].aggregator.checkpoint.last

\* C9: a call of convert_from_quantile ends with an error raised; it never
\* returns normally.
C9_QuantileFailsFast ==
    call.op = "convert_from_quantile" => ~call.outcome.ok

\* C10: convert_from_sum gives exactly one series, named exactly the instrument
\* name, whose value is the total of the updates applied before the checkpoint.
C10_SumSeries ==
    call.op = "convert_from_sum"
        => /\ call.outcome.ok
           /\ Len(call.outcome.val) = 1
           /\ call.outcome.val[1].labels[1] = NameLabel(call.arg.instrument.name)
           /\ Len(call.outcome.val[1].samples) = 1
           /\ call.outcome.val[1].samples[1].value = PyInt(SumSeq(call.arg.aggregator.updates))

\* updates 3 then 2 give 5
C10_Witness ==
    /\ call.op = "convert_from_sum"
    /\ call.arg.aggregator.updates = <<3, 2>>
    /\ Len(call.outcome.val) = 1
    /\ call.outcome.val[1].samples[1].value = PyInt(5)

\* the series of out that is named name carries the integer n, in one sample
Carries(series, name, n) ==
    /\ series.labels[1] = NameLabel(name)
    /\ Len(series.samples) = 1
    /\ series.samples[1].value = PyInt(n)

\* v is the smallest (largest) of the updates
IsSmallest(v, updates) ==
    /\ \E i \in 1..Len(updates) : updates[i] = v
    /\ \A i \in 1..Len(updates) : v <= updates[i]
IsLargest(v, updates) ==
    /\ \E i \in 1..Len(updates) : updates[i] = v
    /\ \A i \in 1..Len(updates) : v >= updates[i]

\* C11: convert_from_last_value gives exactly one series, named exactly the
\* instrument name, whose value is the latest update before the checkpoint:
\* not the largest one and not the total.
C11_LastValueSeries ==
    call.op = "convert_from_last_value"
        => LET updates == call.arg.aggregator.updates
           IN /\ call.outcome.ok
              /\ Len(call.outcome.val) = 1
              /\ Carries(call.outcome.val[1], call.arg.instrument.name, updates[Len(updates)])

\* updates 3 then 2 give 2, which is neither the largest nor the total
C11_Witness ==
    /\ call.op = "convert_from_last_value"
    /\ call.arg.aggregator.updates = <<3, 2>>
    /\ Len(call.outcome.val) = 1
    /\ call.outcome.val[1].samples[1].value = PyInt(2)

\* C12: convert_from_min_max_sum_count gives exactly four series, in the order
\* <name>_min, <name>_max, <name>_sum, <name>_count, carrying the smallest
\* update, the largest update, the total and the number of updates.
C12_MinMaxSumCountSeries ==
    call.op = "convert_from_min_max_sum_count"
        => LET updates == call.arg.aggregator.updates
               name == call.arg.instrument.name
               out == call.outcome.val
           IN /\ call.outcome.ok
              /\ Len(out) = 4
              /\ \E v \in Values : IsSmallest(v, updates) /\ Carries(out[1], name \o <<"_", "m", "i", "n">>, v)
              /\ \E v \in Values : IsLargest(v, updates) /\ Carries(out[2], name \o <<"_", "m", "a", "x">>, v)
              /\ Carries(out[3], name \o <<"_", "s", "u", "m">>, SumSeq(updates))
              /\ Carries(out[4], name \o <<"_", "c", "o", "u", "n", "t">>, Len(updates))

\* updates 3 then -1: min -1, max 3, sum 2, count 2
C12_Witness ==
    /\ call.op = "convert_from_min_max_sum_count"
    /\ call.arg.aggregator.updates = <<3, -1>>
    /\ Len(call.outcome.val) = 4
    /\ call.outcome.val[1].samples[1].value = PyInt(-1)
    /\ call.outcome.val[2].samples[1].value = PyInt(3)
    /\ call.outcome.val[3].samples[1].value = PyInt(2)
    /\ call.outcome.val[4].samples[1].value = PyInt(2)

\* C13: convert_from_value_observer gives exactly five series, in the order
\* <name>_min, <name>_max, <name>_sum, <name>_count, <name>_last, carrying the
\* smallest update, the largest update, the total, the number of updates and
\* the latest update.
C13_ValueObserverSeries ==
    call.op = "convert_from_value_observer"
        => LET updates == call.arg.aggregator.updates
               name == call.arg.instrument.name
               out == call.outcome.val
           IN /\ call.outcome.ok
              /\ Len(out) = 5
              /\ \E v \in Values : IsSmallest(v, updates) /\ Carries(out[1], name \o <<"_", "m", "i", "n">>, v)
              /\ \E v \in Values : IsLargest(v, updates) /\ Carries(out[2], name \o <<"_", "m", "a", "x">>, v)
              /\ Carries(out[3], name \o <<"_", "s", "u", "m">>, SumSeq(updates))
              /\ Carries(out[4], name \o <<"_", "c", "o", "u", "n", "t">>, Len(updates))
              /\ Carries(out[5], name \o <<"_", "l", "a", "s", "t">>, updates[Len(updates)])

\* updates 3, -1, 2: min -1, max 3, sum 4, count 3, last 2
C13_Witness ==
    /\ call.op = "convert_from_value_observer"
    /\ call.arg.aggregator.updates = <<3, -1, 2>>
    /\ Len(call.outcome.val) = 5
    /\ call.outcome.val[1].samples[1].value = PyInt(-1)
    /\ call.outcome.val[2].samples[1].value = PyInt(3)
    /\ call.outcome.val[3].samples[1].value = PyInt(4)
    /\ call.outcome.val[4].samples[1].value = PyInt(3)
    /\ call.outcome.val[5].samples[1].value = PyInt(2)

\* The positions of a name that survive sanitising: every legal character, and
\* the first character of every run of illegal ones.
Survivors(name) ==
    {i \in 1..Len(name) : name[i] \in Legal \/ i = 1 \/ name[i - 1] \in Legal}

\* the name with every maximal run of illegal characters made one underscore
Collapsed(name) ==
    LET nth(j) == CHOOSE i \in Survivors(name) :
                      Cardinality({k \in Survivors(name) : k < i}) = j - 1
    IN [j \in 1..Cardinality(Survivors(name)) |->
            IF name[nth(j)] \in Legal THEN name[nth(j)] ELSE "_"]

\* ^[0-9A-Za-z_]+$
MatchesPattern(name) == name # <<>> /\ \A i \in 1..Len(name) : name[i] \in Legal

\* C14: create_timeseries gives the labels (__name__, series name), then one
\* label per resource attribute in the map's order, then one label per record
\* label whose name is not a resource attribute's name, in record order; and
\* exactly one sample, built from the last-update timestamp and the value.
C14_TimeseriesLabelsAndSample ==
    call.op = "create_timeseries"
        => LET record == call.arg.export_record
               attributes == record.resource.attributes
               labels == record.labels
               kept == {i \in 1..Len(labels) :
                           \A a \in 1..Len(attributes) : attributes[a][1] # labels[i][1]}
               rank(i) == Cardinality({k \in kept : k <= i})
               out == call.outcome.val
           IN /\ call.outcome.ok
              /\ Len(out.labels) = 1 + Len(attributes) + Cardinality(kept)
              /\ out.labels[1] = NameLabel(call.arg.name)
              /\ \A a \in 1..Len(attributes) :
                    out.labels[1 + a] = [name |-> Collapsed(attributes[a][1]),
                                         value |-> attributes[a][2]]
              /\ \A i \in kept :
                    out.labels[1 + Len(attributes) + rank(i)]
                        = [name |-> Collapsed(labels[i][1]), value |-> labels[i][2]]
              /\ out.samples = <<create_sample(record.aggregator.last_update_timestamp,
                                               call.arg.value)>>

\* two attributes, three record labels of which the second is shadowed by an
\* attribute: five labels, the shadowed one absent
C14_Witness ==
    /\ call.op = "create_timeseries"
    /\ call.arg.export_record.resource.attributes = TwoAttributes
    /\ call.arg.export_record.labels = ThreeLabels
    /\ Len(call.outcome.val.labels) = 5
    /\ call.outcome.val.labels[2].value = <<"r", "v">>
    /\ call.outcome.val.labels[4] = [name |-> <<"k", "_", "m">>, value |-> <<"v">>]
    /\ call.outcome.val.labels[5].value = <<"y">>
    /\ Len(call.outcome.val.samples) = 1

\* C15 as stated: for every label name, the name create_label gives matches
\* ^[0-9A-Za-z_]+$ and is the input with every maximal run of illegal
\* characters replaced by one underscore; the value is unchanged.
C15_EveryNameSanitized ==
    call.op = "create_label"
        => /\ call.outcome.ok
           /\ MatchesPattern(call.outcome.val.name)
           /\ call.outcome.val.name = Collapsed(call.arg.name)
           /\ call.outcome.val.value = call.arg.value

\* C15, amended: the same for every non-empty label name; the empty name is
\* returned empty, which the pattern does not match.
C15_NonEmptyNameSanitized ==
    call.op = "create_label"
        => /\ call.outcome.ok
           /\ call.outcome.val.name = Collapsed(call.arg.name)
           /\ call.outcome.val.value = call.arg.value
           /\ call.arg.name # <<>> => MatchesPattern(call.outcome.val.name)
           /\ call.arg.name = <<>> => call.outcome.val.name = <<>>

\* a run of two illegal characters between legal ones becomes one underscore
C15_Witness ==
    /\ call.op = "create_label"
    /\ call.arg.name = <<"a", "/", "@", "Z">>
    /\ call.arg.value = <<"k", "/", "@">>
    /\ call.outcome.val = [name |-> <<"a", "_", "Z">>, value |-> <<"k", "/", "@">>]

\* C24: in every series create_timeseries gives, the label names as emitted
\* are pairwise distinct and __name__ occurs exactly once, whatever the names
\* of the resource attributes and of the record labels.
C24_LabelNamesDistinct ==
    call.op = "create_timeseries"
        => LET labels == call.outcome.val.labels
           IN /\ \A i, j \in 1..Len(labels) : labels[i].name = labels[j].name => i = j
              /\ Cardinality({i \in 1..Len(labels) :
                                labels[i].name = <<"_", "_", "n", "a", "m", "e", "_", "_">>}) = 1

\* the quotient of a wide int by 1000000, truncated toward zero: the magnitude
\* without its last base-1000000 digit, with the sign kept
Truncated(n) == Wide(n.neg, <<0, n.digits[1], n.digits[2], n.digits[3]>>)

\* C16: for every 64-bit nanosecond timestamp, the sample's timestamp is the
\* exact integer quotient by 1,000,000, truncated toward zero, and the value
\* is copied as it is.
C16_ExactMilliseconds ==
    call.op = "create_sample"
        => /\ call.outcome.ok
           /\ call.outcome.val.timestamp = Truncated(call.arg.timestamp)
           /\ call.outcome.val.value = call.arg.value

----------------------------------------------------------------------------
\* Properties of export and of the transport (under Spec).

\* the calls and returns of one export that runs to its end
FullTrace ==
    <<<<"convert_to_timeseries", "call">>, <<"convert_to_timeseries", "return">>,
      <<"build_message", "call">>, <<"build_message", "return">>,
      <<"get_headers", "call">>, <<"get_headers", "return">>,
      <<"send_message", "call">>, <<"send_message", "return">>>>

\* tr is a beginning of FullTrace, or one whose last call raised
InOrder(tr) ==
    /\ Len(tr) <= Len(FullTrace)
    /\ \A i \in 1..Len(tr) :
        \/ tr[i] = FullTrace[i]
        \/ /\ i = Len(tr)
           /\ tr[i] = <<FullTrace[i][1], "raise">>
           /\ FullTrace[i][2] = "return"

\* C1: export calls convert_to_timeseries, build_message, get_headers and
\* send_message in this order, each after the one before has returned, and the
\* value export returns is the value send_message returned, SUCCESS or FAILURE.
C1_ExportRunsStepsInOrder ==
    \A t \in Threads :
        LET th == thread[t]
        IN /\ InOrder(th.trace)
           /\ (th.pc = "done" /\ th.outcome.ok)
                => /\ th.trace = FullTrace
                   /\ th.outcome = th.send_message_outcome
                   /\ th.outcome.val \in {"SUCCESS", "FAILURE"}

\* an export of two records that returned FAILURE
C1_Witness ==
    \E t \in Threads :
        /\ thread[t].pc = "done"
        /\ Len(thread[t].export_records) = 2
        /\ thread[t].trace = FullTrace
        /\ thread[t].outcome = Return("FAILURE")

\* C2 as stated: every invocation of export that has ended made exactly one
\* HTTP POST.
C2_EveryExportPostsOnce ==
    \A t \in Threads : thread[t].pc = "done" => Len(thread[t].posts) = 1

\* C2 as amended: no invocation of export makes more than one POST; one that
\* returned (SUCCESS or FAILURE) made exactly one, whatever the status; one that
\* ended with an error raised before the POST made none.
C2_AtMostOnePostOneWhenReturned ==
    \A t \in Threads :
        LET th == thread[t]
        IN /\ Len(th.posts) <= 1
           /\ th.pc = "requests_post" => Len(th.posts) = 1
           /\ (th.pc = "done" /\ th.outcome.ok) => Len(th.posts) = 1
           /\ (th.pc = "done" /\ ~th.outcome.ok) => Len(th.posts) = 0

\* an export answered with a status other than 200: one POST, no second one
C2_Witness ==
    \E t \in Threads :
        /\ thread[t].pc = "done"
        /\ thread[t].response # None
        /\ thread[t].response.status_code = 500
        /\ Len(thread[t].posts) = 1

\* C3: send_message returns SUCCESS if and only if the response status is 200,
\* and for every other status it returns FAILURE as a value: it does not raise.
C3_SuccessIffStatus200 ==
    \A t \in Threads :
        thread[t].response # None
            => LET r == thread[t].send_message_outcome
                   status_code == thread[t].response.status_code
               IN /\ r.ok
                  /\ r.val = "SUCCESS" <=> status_code = 200
                  /\ status_code # 200 => r.val = "FAILURE"

\* a response with the status 201, which is not 200: FAILURE
C3_Witness ==
    \E t \in Threads :
        /\ thread[t].response # None
        /\ thread[t].response.status_code = 201
        /\ thread[t].send_message_outcome = Return("FAILURE")

\* C4: an export whose records hold one of an unsupported kind ends with the
\* conversion error raised to the caller: no result value, no message built, no
\* POST made.
C4_ConversionErrorPropagates ==
    \A t \in Threads :
        LET th == thread[t]
        IN HasUnsupported(th.export_records)
            => /\ th.pc \in {"convert_to_timeseries", "done"}
               /\ th.message = None
               /\ th.posts = <<>>
               /\ th.pc = "done" => th.outcome = Raise("ValueError")

\* the unsupported record comes second, after one that converts
C4_Witness ==
    \E t \in Threads :
        /\ thread[t].pc = "done"
        /\ Len(thread[t].export_records) = 2
        /\ thread[t].export_records[1].aggregator.type = "SumAggregator"
        /\ thread[t].export_records[2].aggregator.type = UnsupportedKind
        /\ thread[t].outcome = Raise("ValueError")
        /\ thread[t].posts = <<>>

\* the extra headers the user configured, if any
UserHeaders == IF hasattr(config, "headers") THEN config["_headers"].v ELSE <<>>

FixedHeaders ==
    ("Content-Encoding" :> "snappy")
    @@ ("Content-Type" :> "application/x-protobuf")
    @@ ("X-Prometheus-Remote-Write-Version" :> "0.1.0")

\* the token (or password) a credential file stores: the text of its first line
TokenIn(file) == file.lines[1].text

\* C17: the Authorization header get_headers returns is the user's own if the
\* extra headers hold one; otherwise, with a bearer token or a bearer-token
\* file configured, it is "Bearer " followed by exactly the token (the inline
\* one, or the one the file stores at the time of the call); otherwise there is
\* no Authorization header.
C17_AuthorizationHeader ==
    \A t \in Threads :
        thread[t].headers # None
            => LET headers == thread[t].headers
               IN IF "Authorization" \in DOMAIN UserHeaders
                  THEN /\ "Authorization" \in DOMAIN headers
                       /\ headers["Authorization"] = UserHeaders["Authorization"]
                  ELSE IF hasattr(config, "bearer_token")
                  THEN /\ "Authorization" \in DOMAIN headers
                       /\ headers["Authorization"] = "Bearer " \o config["_bearer_token"].v
                  ELSE IF hasattr(config, "bearer_token_file")
                  THEN /\ "Authorization" \in DOMAIN headers
                       /\ headers["Authorization"]
                            = "Bearer " \o TokenIn(files[config["_bearer_token_file"].v])
                  ELSE "Authorization" \notin DOMAIN headers

\* C18: the headers get_headers returns hold every extra header of the user
\* with the user's value, and each of the three fixed headers with its fixed
\* value unless the user gave a header of that name; the configured map of
\* extra headers is still the one the user gave.
C18_UserHeadersOverFixed ==
    /\ \A t \in Threads :
        thread[t].headers # None
            => LET headers == thread[t].headers
               IN /\ \A k \in DOMAIN UserHeaders :
                        k \in DOMAIN headers /\ headers[k] = UserHeaders[k]
                  /\ \A k \in DOMAIN FixedHeaders \ DOMAIN UserHeaders :
                        k \in DOMAIN headers /\ headers[k] = FixedHeaders[k]
    /\ hasattr(config, "headers") => config["_headers"] \in {a.headers : a \in ConfigArgs}

\* the user overrides Content-Type and leaves the other two fixed headers alone
C18_Witness ==
    \E t \in Threads :
        /\ thread[t].headers # None
        /\ "Content-Type" \in DOMAIN UserHeaders
        /\ thread[t].headers["Content-Type"] = "text/plain"
        /\ thread[t].headers["Content-Encoding"] = "snappy"
        /\ thread[t].headers["X-Prometheus-Remote-Write-Version"] = "0.1.0"
        /\ DOMAIN config["_headers"].v = {"Authorization", "Content-Type"}

SendMessageCalled(th) == \E i \in 1..Len(th.trace) : th.trace[i] = <<"send_message", "call">>

PasswordFileConfigured ==
    hasattr(config, "basic_auth") /\ "password_file" \in DOMAIN config["_basic_auth"].v

\* C19: with a valid basic_auth configured (and its password file, if it names
\* one, in place) send_message makes one POST of the payload to the endpoint
\* with the given headers and the credentials (username, password), the
\* password being the inline one or the one the file stores, and returns
\* SUCCESS or FAILURE; with no basic_auth the POST carries no credentials.
C19_BasicAuthCredentialsSent ==
    \A t \in Threads :
        LET th == thread[t]
            basic_auth == config["_basic_auth"].v
            auth == IF ~hasattr(config, "basic_auth") THEN None
                    ELSE IF "password" \in DOMAIN basic_auth
                    THEN <<basic_auth["username"], basic_auth["password"]>>
                    ELSE <<basic_auth["username"], TokenIn(files[basic_auth["password_file"]])>>
        IN (SendMessageCalled(th)
                /\ ~(PasswordFileConfigured /\ files[basic_auth["password_file"]] = Missing))
            => /\ Len(th.posts) = 1
               /\ th.posts[1] = [url |-> config["_endpoint"].v, data |-> th.message,
                                 headers |-> th.headers, auth |-> auth]
               /\ th.pc = "done" => th.outcome \in {Return("SUCCESS"), Return("FAILURE")}

\* a configured credential file that is needed and is not there
CredentialFileMissing ==
    \/ /\ hasattr(config, "bearer_token_file")
       /\ "Authorization" \notin DOMAIN UserHeaders
       /\ files[config["_bearer_token_file"].v] = Missing
    \/ /\ PasswordFileConfigured
       /\ files[config["_basic_auth"].v["password_file"]] = Missing

\* C20: an export (of records that convert) with a configured credential file
\* missing ends with the file-access error raised to the caller: no SUCCESS,
\* no FAILURE, and no POST.
C20_MissingCredentialFileRaises ==
    \A t \in Threads :
        LET th == thread[t]
        IN (th.pc = "done" /\ ~HasUnsupported(th.export_records) /\ CredentialFileMissing)
            => /\ th.outcome = Raise("FileNotFoundError")
               /\ th.posts = <<>>

----------------------------------------------------------------------------
\* Properties of Config (under ConfigSpec).

\* the auth modes a Config has set
ModesSet(cfg) == {mode \in AuthModes : hasattr(cfg, mode)}

\* the auth modes given to the constructor
ModesGiven(args) == {mode \in AuthModes : args[mode].t # "None"}

\* C21: constructing a Config with more than one of basic_auth, bearer_token
\* and bearer_token_file raises ValueError; a Config has at most one of the
\* three set, whatever was assigned to it since; and an assignment that would
\* set a second one raises ValueError and leaves the Config as it was.
C21_AuthModesExclusive ==
    /\ (call.op = "Config" /\ Cardinality(ModesGiven(call.arg)) > 1)
            => call.outcome = Raise("ValueError")
    /\ config # None => Cardinality(ModesSet(config)) <= 1
    /\ (call.op \in AuthModes /\ ModesSet(call.arg.config) \ {call.op} # {})
            => /\ call.outcome = Raise("ValueError")
               /\ config = call.arg.config

\* username and exactly one of password and password_file
WellFormed(basic_auth) ==
    /\ "username" \in DOMAIN basic_auth.v
    /\ ("password" \in DOMAIN basic_auth.v) # ("password_file" \in DOMAIN basic_auth.v)

\* C22: for every basic_auth mapping given to the constructor, construction
\* raises ValueError when the mapping lacks username, has neither password nor
\* password_file, or has both; a Config is constructed only when the mapping
\* has username and exactly one of password and password_file.
C22_BasicAuthValidated ==
    (call.op = "Config" /\ call.arg.basic_auth.t = "dict")
        => /\ ~WellFormed(call.arg.basic_auth) => call.outcome = Raise("ValueError")
           /\ call.outcome.ok => WellFormed(call.arg.basic_auth)

----------------------------------------------------------------------------
\* Properties of concurrent and successive exports (under ConcurrentSpec).

Returned(th, step) == \E i \in 1..Len(th.trace) : th.trace[i] = <<step, "return">>

\* what a call of export on the given records has, at its position, when it
\* runs alone: series, message and headers from its own records and the
\* configuration; at most one POST, of that message with those headers; and
\* nothing at all once it is over
AsAlone(th) ==
    LET timeseries == convert_to_timeseries(th.export_records)
        headers == get_headers(config, files)
        auth == resolve_auth(config, files)
    IN /\ Returned(th, "convert_to_timeseries") => th.timeseries = timeseries.val
       /\ Returned(th, "build_message") => th.message = build_message(timeseries.val)
       /\ Returned(th, "get_headers") => th.headers = headers.val
       /\ Len(th.posts) <= 1
       /\ \A i \in 1..Len(th.posts) :
            th.posts[i] = [url |-> config["_endpoint"].v,
                           data |-> build_message(timeseries.val),
                           headers |-> headers.val, auth |-> auth.val]
       /\ th.pc = "idle" => th = Idle

\* C23: exports are independent. In every interleaving of two calls on the
\* same exporter, and for calls that follow each other, each call converts,
\* builds and POSTs its own records with the headers of the configuration,
\* as if it ran alone; no step changes the configuration, and nothing of a
\* call is left when it is over.
C23_ExportsIndependent ==
    /\ [](\A t \in Threads : AsAlone(thread[t]))
    /\ [][config' = config]_vars

\* both calls are in flight with different records, and each has posted its own
C23_Witness ==
    /\ thread["t1"].pc = "requests_post"
    /\ thread["t2"].pc = "requests_post"
    /\ Len(thread["t1"].export_records) = 1
    /\ Len(thread["t2"].export_records) = 2
    /\ thread["t1"].posts[1].data # thread["t2"].posts[1].data
    /\ thread["t1"].posts[1].data = build_message(convert_to_timeseries(thread["t1"].export_records).val)
    /\ thread["t2"].posts[1].data = build_message(convert_to_timeseries(thread["t2"].export_records).val)

====
